---------------------------- MODULE Spec2Model ----------------------------
(***************************************************************************)
(* Model of py_server.py: the shared caches (DF and the four aggregate     *)
(* tables), load_data / reload_data, the /ask dispatch chain and the       *)
(* helpers it uses (_norm, _periodo_key, _mom_simple, the formatters).     *)
(*                                                                         *)
(* Text is a sequence of one-character strings.  An accented vowel is one  *)
(* character written "a_acute", "e_acute", ...                             *)
(* Amounts are integers (whole pesos).                                     *)
(***************************************************************************)
EXTENDS Integers, Sequences, FiniteSets, TLC

VARIABLES
    DF, G_BY_PERIOD, G_BY_EMISORA, G_SERVICES, TOP_CLIENTS, LAST_LOAD_TS,
    now,        \* the wall clock read by time.strftime, in seconds
    nloads,     \* number of load_data calls started
    ld,         \* per reload request: position in reload_data/load_data and locals
    ak,         \* the ask request: position in ask and its locals
    last,       \* the previous answered ask (prompt and response), kept while
                \* no reload has been requested since startup
    pk          \* the _periodo_key call: its argument and result

vars == <<DF, G_BY_PERIOD, G_BY_EMISORA, G_SERVICES, TOP_CLIENTS, LAST_LOAD_TS,
          now, nloads, ld, ak, last, pk>>

shared == <<DF, G_BY_PERIOD, G_BY_EMISORA, G_SERVICES, TOP_CLIENTS, LAST_LOAD_TS>>

-----------------------------------------------------------------------------
(* Characters and strings                                                  *)

LowerOf ==
    [A |-> "a", B |-> "b", C |-> "c", D |-> "d", E |-> "e", F |-> "f",
     G |-> "g", H |-> "h", I |-> "i", J |-> "j", K |-> "k", L |-> "l",
     M |-> "m", N |-> "n", O |-> "o", P |-> "p", Q |-> "q", R |-> "r",
     S |-> "s", T |-> "t", U |-> "u", V |-> "v", W |-> "w", X |-> "x",
     Y |-> "y", Z |-> "z"]

Unaccent ==
    [a_acute |-> "a", e_acute |-> "e", i_acute |-> "i", o_acute |-> "o",
     u_acute |-> "u"]

AsciiLower == {LowerOf[c] : c \in DOMAIN LowerOf}
Digits == {"0", "1", "2", "3", "4", "5", "6", "7", "8", "9"}
Spaces == {" "}

\* the characters of the model in code-point order (the order str comparison uses)
CharOrder ==
    <<" ", "!", "#", "-", ".", "/",
      "0", "1", "2", "3", "4", "5", "6", "7", "8", "9", "?",
      "A", "B", "C", "D", "E", "F", "G", "H", "I", "J", "K", "L", "M",
      "N", "O", "P", "Q", "R", "S", "T", "U", "V", "W", "X", "Y", "Z", "_",
      "a", "b", "c", "d", "e", "f", "g", "h", "i", "j", "k", "l", "m",
      "n", "o", "p", "q", "r", "s", "t", "u", "v", "w", "x", "y", "z",
      "a_acute", "e_acute", "i_acute", "o_acute", "u_acute">>

Ord == [c \in {CharOrder[i] : i \in DOMAIN CharOrder} |->
            CHOOSE i \in DOMAIN CharOrder : CharOrder[i] = c]

\* \w of the re module on str: letters (accented ones too), digits, underscore
WordChars == AsciiLower \cup DOMAIN LowerOf \cup DOMAIN Unaccent \cup Digits \cup {"_"}

DigitVal == [c \in Digits |-> Ord[c] - Ord["0"]]

Lower(c) == IF c \in DOMAIN LowerOf THEN LowerOf[c] ELSE c

LowerS(s) == [i \in DOMAIN s |-> Lower(s[i])]

RECURSIVE LStrip(_)
LStrip(s) == IF s # <<>> /\ Head(s) \in Spaces THEN LStrip(Tail(s)) ELSE s

RECURSIVE RStrip(_)
RStrip(s) ==
    IF s # <<>> /\ s[Len(s)] \in Spaces THEN RStrip(SubSeq(s, 1, Len(s) - 1)) ELSE s

Strip(s) == RStrip(LStrip(s))

StartsAt(s, i, w) ==
    /\ i >= 1
    /\ i + Len(w) - 1 <= Len(s)
    /\ SubSeq(s, i, i + Len(w) - 1) = w

\* Python's `w in s`
In(w, s) == \E i \in 1..(Len(s) + 1) : StartsAt(s, i, w)

\* int() of a run of digits
RECURSIVE IntOf(_)
IntOf(ds) ==
    IF ds = <<>> THEN 0
    ELSE 10 * IntOf(SubSeq(ds, 1, Len(ds) - 1)) + DigitVal[ds[Len(ds)]]

\* first index >= i of s that does not hold a character of set cs
RECURSIVE SkipWhile(_, _, _)
SkipWhile(s, i, cs) ==
    IF i <= Len(s) /\ s[i] \in cs THEN SkipWhile(s, i + 1, cs) ELSE i

\* str < str: lexicographic by code point
RECURSIVE StrLess(_, _)
StrLess(a, b) ==
    IF b = <<>> THEN FALSE
    ELSE IF a = <<>> THEN TRUE
    ELSE IF Head(a) = Head(b) THEN StrLess(Tail(a), Tail(b))
    ELSE Ord[Head(a)] < Ord[Head(b)]

-----------------------------------------------------------------------------
(* _norm: lower-case, no accents, no punctuation, single spaces           *)

RECURSIVE Collapse(_)
Collapse(s) ==
    IF Len(s) < 2 THEN s
    ELSE IF s[1] \in Spaces /\ s[2] \in Spaces THEN Collapse(Tail(s))
    ELSE <<s[1]>> \o Collapse(Tail(s))

_norm(s) ==
    LET unaccent(low) ==
            [i \in DOMAIN low |->
                IF low[i] \in DOMAIN Unaccent THEN Unaccent[low[i]] ELSE low[i]]
        nopunct(x) ==
            [i \in DOMAIN x |-> IF x[i] \in WordChars \cup Spaces THEN x[i] ELSE " "]
    IN  Strip(Collapse(nopunct(unaccent(LowerS(s)))))

-----------------------------------------------------------------------------
(* _periodo_key                                                            *)

None == -1

MONTHS_ES ==
    [ene |-> 1, feb |-> 2, mar |-> 3, abr |-> 4, may |-> 5, jun |-> 6,
     jul |-> 7, ago |-> 8, sep |-> 9, sept |-> 9, oct |-> 10, nov |-> 11,
     dic |-> 12]

\* the dictionary's keys as text
MonthText ==
    [ene |-> <<"e", "n", "e">>, feb |-> <<"f", "e", "b">>, mar |-> <<"m", "a", "r">>,
     abr |-> <<"a", "b", "r">>, may |-> <<"m", "a", "y">>, jun |-> <<"j", "u", "n">>,
     jul |-> <<"j", "u", "l">>, ago |-> <<"a", "g", "o">>, sep |-> <<"s", "e", "p">>,
     sept |-> <<"s", "e", "p", "t">>, oct |-> <<"o", "c", "t">>,
     nov |-> <<"n", "o", "v">>, dic |-> <<"d", "i", "c">>]

\* MONTHS_ES.get(k)
MonthsGet(k) ==
    IF \E m \in DOMAIN MONTHS_ES : MonthText[m] = k
    THEN MONTHS_ES[CHOOSE m \in DOMAIN MONTHS_ES : MonthText[m] = k]
    ELSE None

\* [\.]?\s*[-/]?\s*(\d{4}) matched at index i of s: the index of the year, 0 if no match
YearAt(s, i) ==
    LET year(d) ==
            IF d + 3 <= Len(s) /\ \A j \in d..(d + 3) : s[j] \in Digits THEN d ELSE 0
        sep(b) ==
            year(SkipWhile(s, IF b <= Len(s) /\ s[b] \in {"-", "/"} THEN b + 1 ELSE b,
                           Spaces))
    IN  sep(SkipWhile(s, IF i <= Len(s) /\ s[i] = "." THEN i + 1 ELSE i, Spaces))

\* re.match(r"([a-z]{3,5})[\.]?\s*[-/]?\s*(\d{4})", s): the length of group 1
\* (the longest that lets the rest match), 0 if no match
MonLen(s) ==
    LET letters == SkipWhile(s, 1, AsciiLower) - 1
        ok(k, n) == k <= n /\ YearAt(s, k + 1) # 0
        first(n) == IF ok(5, n) THEN 5 ELSE IF ok(4, n) THEN 4 ELSE IF ok(3, n) THEN 3 ELSE 0
    IN  first(letters)

_periodo_key(s) ==
    LET unaccent(low) ==
            [i \in DOMAIN low |->
                IF low[i] \in DOMAIN Unaccent THEN Unaccent[low[i]] ELSE low[i]]
        result(mon_num, year) ==
            IF mon_num = None THEN None ELSE year * 100 + mon_num
        month(mon) ==
            MonthsGet(IF StartsAt(mon, 1, <<"s", "e", "p", "t">>)
                      THEN SubSeq(mon, 1, 4) ELSE SubSeq(mon, 1, 3))
        year(s2, y) == IntOf(SubSeq(s2, y, y + 3))
        matched(s2, k) ==
            IF k = 0 THEN None
            ELSE result(month(SubSeq(s2, 1, k)), year(s2, YearAt(s2, k + 1)))
        match(s2) == matched(s2, MonLen(s2))
    IN  match(unaccent(LowerS(Strip(s))))

-----------------------------------------------------------------------------
(* Columns.  A row is a record over column names; a table is a sequence    *)
(* of rows.  The workbook's cells are already numeric, so the coercion of  *)
(* load_data (lines 156-158) leaves them as they are.                      *)

COL_TOTAL == "Total"
COL_PERIODO == "Periodo"
COL_EMISORA == "Emisora"
COL_CLIENTE == "Cliente"
COL_MOVIL == "Lineas moviles"
COL_HOGAR == "Internet hogar"
COL_SERV == "Servicios adicionales"
COL_AJUSTE == "Notas de ajuste"
SERVICE_COLS == <<COL_MOVIL, COL_HOGAR, COL_SERV, COL_AJUSTE>>

Range(f) == {f[i] : i \in DOMAIN f}

RECURSIVE SumCol(_, _)
SumCol(rows, col) ==
    IF rows = <<>> THEN 0 ELSE Head(rows)[col] + SumCol(Tail(rows), col)

\* df[cols]
Project(rows, cols) == [i \in DOMAIN rows |-> [c \in cols |-> rows[i][c]]]

\* df.drop(columns=[col])
DropCol(rows, col) ==
    [i \in DOMAIN rows |-> [c \in (DOMAIN rows[i]) \ {col} |-> rows[i][c]]]

\* order of group keys: the tuples of key cells, compared cell by cell as strings
RECURSIVE KeyLess(_, _, _)
KeyLess(a, b, kcols) ==
    IF kcols = <<>> THEN FALSE
    ELSE IF a[Head(kcols)] = b[Head(kcols)] THEN KeyLess(a, b, Tail(kcols))
    ELSE StrLess(a[Head(kcols)], b[Head(kcols)])

RECURSIVE SortKeys(_, _)
SortKeys(keys, kcols) ==
    LET rest(m) == <<m>> \o SortKeys(keys \ {m}, kcols)
    IN  IF keys = {} THEN <<>>
        ELSE rest(CHOOSE k \in keys : \A o \in keys \ {k} : KeyLess(k, o, kcols))

\* df.groupby(kcols, as_index=False)[vcols].sum(): one row per key, keys ascending
GroupSum(rows, kcols, vcols) ==
    LET kset == Range(kcols)
        grp(k) == SelectSeq(rows, LAMBDA r : \A c \in kset : r[c] = k[c])
        sums(keys) ==
            [i \in DOMAIN keys |->
                [c \in kset \cup vcols |->
                    IF c \in kset THEN keys[i][c] ELSE SumCol(grp(keys[i]), c)]]
    IN  sums(SortKeys({[c \in kset |-> r[c]] : r \in Range(rows)}, kcols))

\* _add_period_key: a copy of the table with the column _period_key
_add_period_key(rows) ==
    [i \in DOMAIN rows |->
        [c \in (DOMAIN rows[i]) \cup {"_period_key"} |->
            IF c = "_period_key" THEN _periodo_key(rows[i][COL_PERIODO])
            ELSE rows[i][c]]]

\* a missing value: only _period_key holds them
IsNa(r, col) == col = "_period_key" /\ r[col] = None

RECURSIVE InsertAsc(_, _, _)
InsertAsc(sorted, x, col) ==
    IF sorted = <<>> THEN <<x>>
    ELSE IF Head(sorted)[col] <= x[col]
         THEN <<Head(sorted)>> \o InsertAsc(Tail(sorted), x, col)
         ELSE <<x>> \o sorted

RECURSIVE InsertDesc(_, _, _)
InsertDesc(sorted, x, col) ==
    IF sorted = <<>> THEN <<x>>
    ELSE IF Head(sorted)[col] >= x[col]
         THEN <<Head(sorted)>> \o InsertDesc(Tail(sorted), x, col)
         ELSE <<x>> \o sorted

RECURSIVE SortPresent(_, _, _)
SortPresent(rows, col, asc) ==
    LET insert(init, x) == IF asc THEN InsertAsc(init, x, col) ELSE InsertDesc(init, x, col)
    IN  IF rows = <<>> THEN <<>>
        ELSE insert(SortPresent(SubSeq(rows, 1, Len(rows) - 1), col, asc), rows[Len(rows)])

\* df.sort_values(col, ascending=asc): rows with a value ordered by it, equal
\* values in their input order; rows with a missing value last, in input order
sort_values(rows, col, asc) ==
    SortPresent(SelectSeq(rows, LAMBDA r : ~IsNa(r, col)), col, asc)
        \o SelectSeq(rows, LAMBDA r : IsNa(r, col))

\* df.head(n)
head(rows, n) == SubSeq(rows, 1, IF n < Len(rows) THEN n ELSE Len(rows))

_build_caches(df) ==
    <<DropCol(sort_values(_add_period_key(
                  GroupSum(Project(df, {COL_PERIODO, COL_TOTAL}),
                           <<COL_PERIODO>>, {COL_TOTAL})), "_period_key", TRUE),
              "_period_key"),
      sort_values(GroupSum(Project(df, {COL_EMISORA, COL_TOTAL}),
                           <<COL_EMISORA>>, {COL_TOTAL}), COL_TOTAL, FALSE),
      [i \in DOMAIN SERVICE_COLS |->
          [Servicio |-> SERVICE_COLS[i], Importe |-> SumCol(df, SERVICE_COLS[i])]],
      sort_values(GroupSum(Project(df, {COL_CLIENTE, COL_TOTAL}),
                           <<COL_CLIENTE>>, {COL_TOTAL}), COL_TOTAL, FALSE)>>

-----------------------------------------------------------------------------
(* Formatters                                                              *)

RECURSIVE NatText(_)
NatText(n) ==
    IF n < 10 THEN <<CharOrder[Ord["0"] + n]>>
    ELSE NatText(n \div 10) \o <<CharOrder[Ord["0"] + (n % 10)]>>

\* the digits of n in groups of three joined by "."  (format spec "," then the swap)
RECURSIVE Grouped(_)
Grouped(n) ==
    LET pad(r) == (IF r < 10 THEN <<"0", "0">> ELSE IF r < 100 THEN <<"0">> ELSE <<>>)
                    \o NatText(r)
    IN  IF n < 1000 THEN NatText(n)
        ELSE Grouped(n \div 1000) \o <<".">> \o pad(n % 1000)

Abs(x) == IF x < 0 THEN -x ELSE x

\* hundredths h (with sign neg) as "1.234,56"
Fixed2(h, neg) ==
    (IF neg THEN <<"-">> ELSE <<>>) \o Grouped(h \div 100) \o <<",">>
        \o (IF h % 100 < 10 THEN <<"0">> ELSE <<>>) \o NatText(h % 100)

\* _fmt_currency of a whole amount
_fmt_currency(v) == <<"$", " ">> \o Fixed2(Abs(v) * 100, v < 0)

\* a ratio n/d, d # 0 (the float Var_%)
Ratio(n, d) == [n |-> n, d |-> d]

RatioLess(a, b) ==
    LET sa == IF a.d < 0 THEN -1 ELSE 1
        sb == IF b.d < 0 THEN -1 ELSE 1
    IN  a.n * sa * Abs(b.d) < b.n * sb * Abs(a.d)

\* _fmt_percent of a ratio: times 100, two decimals (round half to even)
_fmt_percent(v) ==
    LET den == Abs(v.d)
        neg == (v.n < 0) # (v.d < 0) /\ v.n # 0
        round(q, r) == IF 2 * r > den \/ (2 * r = den /\ q % 2 = 1) THEN q + 1 ELSE q
        hundredths(num) == round(num \div den, num % den)
    IN  Fixed2(hundredths(Abs(v.n) * 10000), neg) \o <<" ", "%">>

-----------------------------------------------------------------------------
(* _mom_simple and the parameter extraction of ask                         *)

\* the dict _mom_simple returns, as a sequence of one row; <<>> stands for None
_mom_simple(df_period_value, value_col) ==
    LET dict(p, q) ==
            <<[Periodo_Actual |-> p[COL_PERIODO],
               Total_Actual |-> p[value_col],
               Periodo_Anterior |-> q[COL_PERIODO],
               Total_Anterior |-> q[value_col],
               Var_Abs |-> p[value_col] - q[value_col],
               Var_pct |-> IF q[value_col] # 0
                           THEN Ratio(p[value_col] - q[value_col], q[value_col])
                           ELSE Ratio(0, 1)]>>
        result(d) == IF Len(d) < 2 THEN <<>> ELSE dict(d[Len(d)], d[Len(d) - 1])
    IN  result(sort_values(_add_period_key(df_period_value), "_period_key", TRUE))

W_top == <<"t", "o", "p">>
W_cliente == <<"c", "l", "i", "e", "n", "t", "e">>
W_ultimo == <<"u", "l", "t", "i", "m", "o">>
W_mes == <<"m", "e", "s">>
W_por_mes == <<"p", "o", "r", " ", "m", "e", "s">>
W_total_por_mes == <<"t", "o", "t", "a", "l", " ">> \o W_por_mes
W_mensual == <<"m", "e", "n", "s", "u", "a", "l">>
W_emisora == <<"e", "m", "i", "s", "o", "r", "a">>
W_canal == <<"c", "a", "n", "a", "l">>
W_servicio == <<"s", "e", "r", "v", "i", "c", "i", "o">>
W_tipo == <<"t", "i", "p", "o">>
W_variac == <<"v", "a", "r", "i", "a", "c">>
W_variacion == W_variac \o <<"i", "o", "n">>
W_mom == <<"m", "o", "m">>

\* re.search(r"top\s*(\d+)", t): the digits of the leftmost match, <<>> if none
TopDigits(t) ==
    LET digits(a, b) == IF b > a THEN SubSeq(t, a, b - 1) ELSE <<>>
        run(a) == digits(a, SkipWhile(t, a, Digits))
        at(i) == IF StartsAt(t, i, W_top) THEN run(SkipWhile(t, i + 3, Spaces)) ELSE <<>>
        first(hits) ==
            IF hits = {} THEN <<>> ELSE at(CHOOSE i \in hits : \A j \in hits : i <= j)
    IN  first({i \in 1..Len(t) : at(i) # <<>>})

\* n = int(m.group(1)) if m else 5
TopN(t) ==
    LET n(ds) == IF ds = <<>> THEN 5 ELSE IntOf(ds)
    IN  n(TopDigits(t))

\* re.search(r"cliente\s*([\w\s\-\#]+)", raw, flags=re.IGNORECASE), then
\* m.group(1).strip(): <<name>> for the leftmost match, <<>> if there is none.
\* Group 1 runs to the first character outside the class or to the end of raw.
ClienteName(raw) ==
    LET class == WordChars \cup Spaces \cup {"-", "#"}
        stop(i) == SkipWhile(raw, i + 7, class)
        hit(i) == /\ i + 6 <= Len(raw)
                  /\ LowerS(SubSeq(raw, i, i + 6)) = W_cliente
                  /\ stop(i) > i + 7
        group(i) == <<Strip(SubSeq(raw, i + 7, stop(i) - 1))>>
        first(hits) ==
            IF hits = {} THEN <<>> ELSE group(CHOOSE h \in hits : \A j \in hits : h <= j)
    IN  first({i \in 1..Len(raw) : hit(i)})

\* Series.str.contains(name, case=False, na=False) on one cell; name holds no
\* regex metacharacter, so the pattern is the literal text
StrContains(cell, name) == In(LowerS(name), LowerS(cell))

has_variac(t) == In(W_variac, t) \/ In(W_variacion, t)

\* route with the emisora/canal block tested before the per-month block
route_emisora_first(t, raw) ==
    IF In(W_top, t) /\ In(W_cliente, t) /\ ~In(W_ultimo, t) THEN 205
    ELSE IF In(W_top, t) /\ In(W_cliente, t) /\ (In(W_ultimo, t) \/ In(W_mes, t)) THEN 214
    ELSE IF In(W_emisora, t) \/ In(W_canal, t) THEN 248
    ELSE IF In(W_por_mes, t) \/ In(W_total_por_mes, t) \/ In(W_mensual, t) THEN 241
    ELSE IF In(W_servicio, t) \/ In(W_tipo, t) THEN 272
    ELSE IF In(W_cliente, t) /\ ClienteName(raw) # <<>> THEN 299
    ELSE IF has_variac(t) \/ In(W_mom, t) THEN 327
    ELSE 343

\* the if-chain of ask: the line of the block that answers the query
route(t, raw) ==
    IF In(W_top, t) /\ In(W_cliente, t) /\ ~In(W_ultimo, t) THEN 205
    ELSE IF In(W_top, t) /\ In(W_cliente, t) /\ (In(W_ultimo, t) \/ In(W_mes, t)) THEN 214
    ELSE IF In(W_por_mes, t) \/ In(W_total_por_mes, t) \/ In(W_mensual, t) THEN 241
    ELSE IF In(W_emisora, t) \/ In(W_canal, t) THEN 248
    ELSE IF In(W_servicio, t) \/ In(W_tipo, t) THEN 272
    ELSE IF In(W_cliente, t) /\ ClienteName(raw) # <<>> THEN 299
    ELSE IF has_variac(t) \/ In(W_mom, t) THEN 327
    ELSE 343

-----------------------------------------------------------------------------
(* The responses of ask.  A response records the return statement that     *)
(* produced it (ret, its line), the values its title is built from (n,     *)
(* name, cur, prev), and the stringified rows handed to _df_to_md_table;   *)
(* an uncaught exception is a response with key "exception" and the line   *)
(* that raises.                                                            *)

NoAnswer == [filas |-> 0, total |-> <<>>, clientes_unicos |-> 0, loaded_at |-> 0]

Md(ret, n, name, cur, prev, rows) ==
    [key |-> "md", ret |-> ret, n |-> n, name |-> name, cur |-> cur, prev |-> prev,
     rows |-> rows, answer |-> NoAnswer]

Raised(line) ==
    [key |-> "exception", ret |-> line, n |-> 0, name |-> <<>>, cur |-> <<>>,
     prev |-> <<>>, rows |-> <<>>, answer |-> NoAnswer]

Answer(resumen) ==
    [key |-> "answer", ret |-> 350, n |-> 0, name |-> <<>>, cur |-> <<>>,
     prev |-> <<>>, rows |-> <<>>, answer |-> resumen]

NoResp == Raised(0)

\* lines 206-211
top_acum(top_clients, t) ==
    LET md(n, g) ==
            Md(211, n, <<>>, <<>>, <<>>,
               [i \in DOMAIN g |-> [Cliente |-> g[i][COL_CLIENTE],
                                    Facturado |-> _fmt_currency(g[i][COL_TOTAL])]])
        top(n) == md(n, head(top_clients, n))
    IN  top(TopN(t))

\* top_cur.merge(prev, on=COL_CLIENTE, how="left").fillna({"Prev":0})
RECURSIVE MergeLeft(_, _)
MergeLeft(top_cur, prev) ==
    LET one(r, v) == [Cliente |-> r[COL_CLIENTE], Total |-> r[COL_TOTAL],
                      Periodo |-> r[COL_PERIODO], Prev |-> v]
        join(r, m) == IF m = <<>> THEN <<one(r, 0)>>
                      ELSE [i \in DOMAIN m |-> one(r, m[i][COL_TOTAL])]
        rows(r) == join(r, SelectSeq(prev, LAMBDA x : x[COL_CLIENTE] = r[COL_CLIENTE]))
    IN  IF top_cur = <<>> THEN <<>>
        ELSE rows(Head(top_cur)) \o MergeLeft(Tail(top_cur), prev)

\* tdf["_period_key"].unique(), then sorted(): the keys in order of appearance;
\* tdf is ordered by key with the missing keys last, and sorted() leaves a list
\* that ends in one nan, or holds the single None, as it is
RECURSIVE Unique(_)
Unique(ks) ==
    LET add(init, k) == IF k \in Range(init) THEN init ELSE Append(init, k)
    IN  IF ks = <<>> THEN <<>>
        ELSE add(Unique(SubSeq(ks, 1, Len(ks) - 1)), ks[Len(ks)])

Max(S) == CHOOSE x \in S : \A y \in S : y <= x

\* lines 215-238
top_ultimo(df, t) ==
    LET var(r) == IF r.Prev # 0 THEN Ratio(r.Total - r.Prev, r.Prev) ELSE Ratio(0, 1)
        \* lines 230-238; merged[COL_PERIODO].iloc[0] raises on an empty frame
        \* (the assignment of line 230 may raise before it)
        out(n, merged, periodo_anterior) ==
            IF merged = <<>> THEN Raised(231)
            ELSE Md(238, n, <<>>, merged[1].Periodo, periodo_anterior,
                    [i \in DOMAIN merged |->
                        [Cliente |-> merged[i].Cliente,
                         Facturado |-> _fmt_currency(merged[i].Total),
                         Variacion_pct |-> _fmt_percent(var(merged[i]))]])
        \* lines 225-229 and 232
        join(n, top_cur, prev_key, prev_rows) ==
            IF prev_key # None
            THEN out(n, MergeLeft(top_cur, prev_rows), prev_rows[1][COL_PERIODO])
            ELSE out(n, MergeLeft(top_cur, <<>>), <<"emdash">>)
        \* lines 223-224; nan == nan is False: a missing last_key selects no row
        cur(n, tdf, last_key, prev_key) ==
            join(n,
                 head(sort_values(
                          SelectSeq(tdf, LAMBDA r : last_key # None
                                                     /\ r["_period_key"] = last_key),
                          COL_TOTAL, FALSE), n),
                 prev_key,
                 SelectSeq(tdf, LAMBDA r : r["_period_key"] = prev_key))
        \* lines 220-222; Series.max() skips the missing keys
        pick(n, tdf, present, uniq_keys) ==
            cur(n, tdf,
                IF present = {} THEN None ELSE Max(present),
                IF Len(uniq_keys) >= 2 THEN uniq_keys[Len(uniq_keys) - 1] ELSE None)
        keys(n, tdf, ks) == pick(n, tdf, Range(ks) \ {None}, Unique(ks))
        \* line 219
        top(n, tdf) ==
            IF tdf = <<>> THEN Md(219, n, <<>>, <<>>, <<>>, <<>>)
            ELSE keys(n, tdf, [i \in DOMAIN tdf |-> tdf[i]["_period_key"]])
    IN  top(TopN(t),
            sort_values(_add_period_key(
                GroupSum(Project(df, {COL_CLIENTE, COL_PERIODO, COL_TOTAL}),
                         <<COL_CLIENTE, COL_PERIODO>>, {COL_TOTAL})),
                "_period_key", TRUE))

\* lines 242-245
por_mes(g_by_period) ==
    Md(245, 0, <<>>, <<>>, <<>>,
       [i \in DOMAIN g_by_period |->
           [Periodo |-> g_by_period[i][COL_PERIODO],
            Total |-> _fmt_currency(g_by_period[i][COL_TOTAL])]])

\* the rows of lines 251-256: one per emisora with a _mom_simple result
MomByEmisora(df) ==
    LET tag(em, mrow) ==
            [j \in DOMAIN mrow |->
                [c \in DOMAIN mrow[j] \cup {COL_EMISORA} |->
                    IF c = COL_EMISORA THEN em ELSE mrow[j][c]]]
        one(dd, em) ==
            tag(em, _mom_simple(Project(SelectSeq(dd, LAMBDA r : r[COL_EMISORA] = em),
                                        {COL_PERIODO, COL_TOTAL}), COL_TOTAL))
        rows(dd, ems) ==
            LET F[i \in 0..Len(ems)] ==
                    IF i = 0 THEN <<>> ELSE F[i - 1] \o one(dd, ems[i].Emisora)
            IN  F[Len(ems)]
        each(dd) ==
            rows(dd, SortKeys({[Emisora |-> r[COL_EMISORA]] : r \in Range(dd)},
                              <<COL_EMISORA>>))
    IN  each(GroupSum(Project(df, {COL_EMISORA, COL_PERIODO, COL_TOTAL}),
                      <<COL_EMISORA, COL_PERIODO>>, {COL_TOTAL}))

\* sort_values("Var_%", ascending=False): equal ratios keep their order
RECURSIVE SortVarDesc(_)
SortVarDesc(rows) ==
    LET put(init, x, k) == SubSeq(init, 1, k) \o <<x>> \o SubSeq(init, k + 1, Len(init))
        insert(init, x) ==
            put(init, x,
                Cardinality({i \in DOMAIN init : ~RatioLess(init[i].Var_pct, x.Var_pct)}))
    IN  IF rows = <<>> THEN <<>>
        ELSE insert(SortVarDesc(SubSeq(rows, 1, Len(rows) - 1)), rows[Len(rows)])

\* the row of a variation table: the amounts and the ratio formatted
VarView(m, extra) ==
    [c \in {"Periodo_Actual", "Total_Actual", "Periodo_Anterior", "Total_Anterior",
            "Var_Abs", "Var_pct"} \cup DOMAIN extra |->
        IF c \in DOMAIN extra THEN extra[c]
        ELSE IF c \in {"Total_Actual", "Total_Anterior", "Var_Abs"} THEN _fmt_currency(m[c])
        ELSE IF c = "Var_pct" THEN _fmt_percent(m[c])
        ELSE m[c]]

\* lines 249-264
emisora_var(df) ==
    LET view(mom) ==
            Md(264, 0, <<>>, <<>>, <<>>,
               [i \in DOMAIN mom |-> VarView(mom[i], [Emisora |-> mom[i][COL_EMISORA]])])
        result(rows) ==
            IF rows = <<>> THEN Md(257, 0, <<>>, <<>>, <<>>, <<>>)
            ELSE view(SortVarDesc(rows))
    IN  result(MomByEmisora(df))

\* lines 266-269
emisora_tot(g_by_emisora) ==
    Md(269, 0, <<>>, <<>>, <<>>,
       [i \in DOMAIN g_by_emisora |->
           [Emisora |-> g_by_emisora[i][COL_EMISORA],
            Total |-> _fmt_currency(g_by_emisora[i][COL_TOTAL])]])

\* lines 274-291
servicio_var(df) ==
    LET row(p, q, col) ==
            VarView([Periodo_Actual |-> p[COL_PERIODO], Total_Actual |-> p[col],
                     Periodo_Anterior |-> q[COL_PERIODO], Total_Anterior |-> q[col],
                     Var_Abs |-> p[col] - q[col],
                     Var_pct |-> IF q[col] # 0 THEN Ratio(p[col] - q[col], q[col])
                                 ELSE Ratio(0, 1)],
                    [Servicio |-> col])
        table(p, q) ==
            Md(291, 0, <<>>, <<>>, <<>>,
               [i \in DOMAIN SERVICE_COLS |-> row(p, q, SERVICE_COLS[i])])
        result(d) ==
            IF Len(d) < 2 THEN Md(276, 0, <<>>, <<>>, <<>>, <<>>)
            ELSE table(d[Len(d)], d[Len(d) - 1])
    IN  result(sort_values(_add_period_key(
                   GroupSum(df, <<COL_PERIODO>>, Range(SERVICE_COLS))),
                   "_period_key", TRUE))

\* lines 293-296
servicio_tot(g_services) ==
    Md(296, 0, <<>>, <<>>, <<>>,
       [i \in DOMAIN g_services |->
           [Servicio |-> g_services[i].Servicio,
            Importe |-> _fmt_currency(g_services[i].Importe)]])

\* line 303, DF[DF[COL_CLIENTE].str.contains(...)]: the rows of `outer` selected
\* by the boolean Series computed on `inner`, aligned on the row index.  <<>>
\* stands for the IndexingError raised when the mask does not cover outer's index.
Filter(outer, inner, name) ==
    IF Len(inner) < Len(outer) THEN <<>>
    ELSE <<SelectSeq([i \in DOMAIN outer |-> [row |-> outer[i],
                         keep |-> StrContains(inner[i][COL_CLIENTE], name)]],
                     LAMBDA x : x.keep)>>

\* lines 300-324, for a raw text the pattern matches
cliente(outer, inner, t, raw) ==
    LET \* lines 321-324
        totals(name, tot) ==
            Md(324, 0, name, <<>>, <<>>,
               [i \in DOMAIN tot |-> [Periodo |-> tot[i][COL_PERIODO],
                                      Total |-> _fmt_currency(tot[i][COL_TOTAL])]])
        \* lines 308-320
        var(name, mom) ==
            IF mom = <<>> THEN Md(309, 0, name, <<>>, <<>>, <<>>)
            ELSE Md(320, 0, name, <<>>, <<>>, <<VarView(mom[1], [Cliente |-> name])>>)
        \* lines 306-307
        grouped(name, byp) ==
            IF has_variac(t)
            THEN var(name, _mom_simple(Project(byp, {COL_PERIODO, COL_TOTAL}), COL_TOTAL))
            ELSE totals(name, DropCol(sort_values(_add_period_key(byp),
                                                  "_period_key", TRUE), "_period_key"))
        \* lines 304-306
        found(name, filt) ==
            IF Len(filt) = 0 THEN Md(305, 0, name, <<>>, <<>>, <<>>)
            ELSE grouped(name, GroupSum(filt, <<COL_PERIODO>>, {COL_TOTAL}))
        \* line 303
        filtered(name, f) ==
            IF f = <<>> THEN Raised(303)
            ELSE found(name, [i \in DOMAIN f[1] |-> f[1][i].row])
        named(name) == filtered(name, Filter(outer, inner, name))
    IN  named(ClienteName(raw)[1])

\* lines 328-340
variacion(df) ==
    LET result(mom) ==
            IF mom = <<>> THEN Md(330, 0, <<>>, <<>>, <<>>, <<>>)
            ELSE Md(340, 0, <<>>, <<>>, <<>>, <<VarView(mom[1], <<>>)>>)
    IN  result(_mom_simple(GroupSum(Project(df, {COL_PERIODO, COL_TOTAL}),
                                    <<COL_PERIODO>>, {COL_TOTAL}), COL_TOTAL))

-----------------------------------------------------------------------------
(* Inputs: the rows a workbook may hold, the workbooks, the prompts        *)

Row(c, e, p, tot, mov, hog, ser, aju) ==
    [c2 \in {COL_CLIENTE, COL_EMISORA, COL_PERIODO, COL_TOTAL,
             COL_MOVIL, COL_HOGAR, COL_SERV, COL_AJUSTE} |->
        CASE c2 = COL_CLIENTE -> c [] c2 = COL_EMISORA -> e [] c2 = COL_PERIODO -> p
          [] c2 = COL_TOTAL -> tot [] c2 = COL_MOVIL -> mov [] c2 = COL_HOGAR -> hog
          [] c2 = COL_SERV -> ser [] OTHER -> aju]

\* "2025-07" and "2025-06" are labels _periodo_key does not resolve;
\* "Jul-2025" and "jul 2025" are two labels of one month
Rows ==
    <<
      Row(<<"A", "c", "m", "e">>, <<"N">>,
          <<"J", "u", "n", "-", "2", "0", "2", "5">>, 10, 6, 4, 0, 0),
      Row(<<"A", "c", "m", "e">>, <<"N">>,
          <<"J", "u", "l", "-", "2", "0", "2", "5">>, 30, 20, 10, 0, 0),
      Row(<<"B", "e", "t", "a">>, <<"S">>,
          <<"J", "u", "l", "-", "2", "0", "2", "5">>, 20, 10, 5, 7, -2),
      Row(<<"B", "e", "t", "a">>, <<"S">>,
          <<"j", "u", "l", " ", "2", "0", "2", "5">>, 5, 5, 0, 0, 0),
      Row(<<"A", "c", "m", "e">>, <<"S">>,
          <<"2", "0", "2", "5", "-", "0", "7">>, 8, 8, 0, 0, 0),
      Row(<<"B", "e", "t", "a">>, <<"N">>,
          <<"J", "u", "n", "-", "2", "0", "2", "5">>, 0, 0, 0, 0, 0),
      Row(<<"A", "c", "m", "e", " ", "S", "u", "r">>, <<"N">>,
          <<"2", "0", "2", "5", "-", "0", "6">>, 12, 0, 12, 0, 0),
      Row(<<"B", "e", "t", "a">>, <<"S">>,
          <<"A", "g", "o", "-", "2", "0", "2", "5">>, 33, 16, 16, 1, 0)>>

MaxRows == 3

RECURSIVE Pick(_)
Pick(S) ==
    LET rest(i) == <<Rows[i]>> \o Pick(S \ {i})
    IN  IF S = {} THEN <<>> ELSE rest(CHOOSE x \in S : \A y \in S : x <= y)

\* the record sets the sheet may hold: up to MaxRows of Rows, in sheet order
Datasets == {Pick(S) : S \in {X \in SUBSET DOMAIN Rows : Cardinality(X) \in 1..MaxRows}}

\* the contents the workbook goes through while reloads overlap
Workbooks == {Pick({1, 2, 3}), Pick({4, 5})}

Prompts ==
    {
      <<"T", "o", "p", " ", "3", " ", "c", "l", "i", "e", "n", "t", "e", "s">>,
      <<"t", "o", "p", " ", "c", "l", "i", "e", "n", "t", "e", "s", " ", "u", "l", "t", "i", "m", "o", " ", "m", "e", "s">>,
      <<"T", "o", "p", " ", "1", " ", "c", "l", "i", "e", "n", "t", "e", "s", " ", "d", "e", "l", " ", "u_acute", "l", "t", "i", "m", "o", " ", "m", "e", "s", "!">>,
      <<"t", "o", "p", " ", "2", " ", "c", "l", "i", "e", "n", "t", "e", "s", " ", "p", "o", "r", " ", "m", "e", "s">>,
      <<"t", "o", "t", "a", "l", " ", "p", "o", "r", " ", "m", "e", "s">>,
      <<"e", "m", "i", "s", "o", "r", "a", " ", "m", "e", "n", "s", "u", "a", "l">>,
      <<"v", "a", "r", "i", "a", "c", "i", "o", "n", " ", "p", "o", "r", " ", "e", "m", "i", "s", "o", "r", "a">>,
      <<"v", "e", "n", "t", "a", "s", " ", "p", "o", "r", " ", "c", "a", "n", "a", "l">>,
      <<"V", "a", "r", "i", "a", "c", "i", "o_acute", "n", " ", "s", "e", "r", "v", "i", "c", "i", "o">>,
      <<"t", "i", "p", "o", " ", "d", "e", " ", "s", "e", "r", "v", "i", "c", "i", "o">>,
      <<"t", "o", "p", " ", "s", "e", "r", "v", "i", "c", "i", "o">>,
      <<"c", "l", "i", "e", "n", "t", "e", " ", "A", "c", "m", "e", " ", "v", "a", "r", "i", "a", "c", "i", "o", "n">>,
      <<"v", "a", "r", "i", "a", "c", "i", "o", "n", " ", "c", "l", "i", "e", "n", "t", "e", " ", "a", "c", "m", "e">>,
      <<"c", "l", "i", "e", "n", "t", "e", " ", "b", "e", "t", "a">>,
      <<"C", "l", "i", "e", "n", "t", "e", " ", "Z", "e", "t", "a">>,
      <<"c", "l", "i", "e", "n", "t", "e">>,
      <<"V", "a", "r", "i", "a", "c", "i", "o_acute", "n", " ", "c", "l", "i", "e", "n", "t", "e", "!">>,
      <<"v", "a", "r", "i", "a", "c", "i", "o", "n">>,
      <<"m", "o", "m">>,
      <<"a", "s", "d", "f", " ", "q", "w", "e", "r">>,
      <<"t", "o", "p", " ", "c", "l", "i", "e", "n", "t", "e", "s", " ", "e", "m", "i", "s", "o", "r", "a">>,
      <<"s", "e", "r", "v", "i", "c", "i", "o", " ", "c", "l", "i", "e", "n", "t", "e", " ", "a", "c", "m", "e">>,
      <<"c", "l", "i", "e", "n", "t", "e", " ", "a", "c", "m", "e", " ", "m", "o", "m">>,
      <<"c", "a", "n", "a", "l", " ", "t", "i", "p", "o">>,
      <<"m", "e", "n", "s", "u", "a", "l", " ", "t", "o", "p", " ", "c", "l", "i", "e", "n", "t", "e", " ", "u", "l", "t", "i", "m", "o">>}

-----------------------------------------------------------------------------
(* State                                                                   *)

NReloaders == 2
MaxLoads == 2
MaxClock == 1

Reloaders == 1..NReloaders

LdIdle == [pc |-> "idle", df |-> <<>>, caches |-> <<>>, k |-> 0]

AkIdle == [pc |-> "idle", prompt |-> <<>>, df |-> <<>>, df2 |-> <<>>,
           total |-> 0, filas |-> 0, clientes |-> 0, resp |-> NoResp]

NoLast == [prompt |-> <<>>, resp |-> NoResp]

NoCall == [label |-> <<>>, done |-> FALSE, key |-> None]

\* the state once _startup has run load_data on workbook d at second 0
Loaded(d) ==
    LET caches(c) ==
            /\ G_BY_PERIOD = c[1]
            /\ G_BY_EMISORA = c[2]
            /\ G_SERVICES = c[3]
            /\ TOP_CLIENTS = c[4]
    IN  /\ DF = d
        /\ caches(_build_caches(d))
        /\ LAST_LOAD_TS = 0
        /\ now = 0
        /\ nloads = 0
        /\ ld = [r \in Reloaders |-> LdIdle]
        /\ ak = AkIdle
        /\ last = NoLast

Init == (\E d \in Workbooks : Loaded(d)) /\ pk = NoCall

-----------------------------------------------------------------------------
(* load_data, called by reload_data                                        *)

\* the clock advances
Tick ==
    /\ now < MaxClock
    /\ now' = now + 1
    /\ UNCHANGED <<shared, nloads, ld, ak, last, pk>>

\* lines 154-158: read the sheet into the local df
LoadRead(r) ==
    /\ ld[r].pc = "idle"
    /\ nloads < MaxLoads
    /\ \E d \in Workbooks : ld' = [ld EXCEPT ![r] = [LdIdle EXCEPT !.pc = "L159", !.df = d]]
    /\ nloads' = nloads + 1
    /\ last' = NoLast
    /\ UNCHANGED <<shared, now, ak, pk>>

\* line 159: DF = df
LoadSetDF(r) ==
    /\ ld[r].pc = "L159"
    /\ DF' = ld[r].df
    /\ ld' = [ld EXCEPT ![r].pc = "L160"]
    /\ UNCHANGED <<G_BY_PERIOD, G_BY_EMISORA, G_SERVICES, TOP_CLIENTS, LAST_LOAD_TS,
                   now, nloads, ak, last, pk>>

\* line 160, right-hand side: _build_caches on the DF the global holds now
LoadBuild(r) ==
    /\ ld[r].pc = "L160"
    /\ ld' = [ld EXCEPT ![r].pc = "store", ![r].caches = _build_caches(DF), ![r].k = 1]
    /\ UNCHANGED <<shared, now, nloads, ak, last, pk>>

\* line 160, the four stores of the tuple assignment, one at a time
LoadStore(r) ==
    /\ ld[r].pc = "store"
    /\ G_BY_PERIOD' = IF ld[r].k = 1 THEN ld[r].caches[1] ELSE G_BY_PERIOD
    /\ G_BY_EMISORA' = IF ld[r].k = 2 THEN ld[r].caches[2] ELSE G_BY_EMISORA
    /\ G_SERVICES' = IF ld[r].k = 3 THEN ld[r].caches[3] ELSE G_SERVICES
    /\ TOP_CLIENTS' = IF ld[r].k = 4 THEN ld[r].caches[4] ELSE TOP_CLIENTS
    /\ ld' = [ld EXCEPT ![r].k = IF ld[r].k = 4 THEN 0 ELSE ld[r].k + 1,
                        ![r].pc = IF ld[r].k = 4 THEN "L161" ELSE "store"]
    /\ UNCHANGED <<DF, LAST_LOAD_TS, now, nloads, ak, last, pk>>

\* line 161: LAST_LOAD_TS = time.strftime(...)
LoadStamp(r) ==
    /\ ld[r].pc = "L161"
    /\ LAST_LOAD_TS' = now
    /\ ld' = [ld EXCEPT ![r].pc = "L363"]
    /\ UNCHANGED <<DF, G_BY_PERIOD, G_BY_EMISORA, G_SERVICES, TOP_CLIENTS,
                   now, nloads, ak, last, pk>>

\* line 363: reload_data returns
ReloadReturn(r) ==
    /\ ld[r].pc = "L363"
    /\ ld' = [ld EXCEPT ![r] = LdIdle]
    /\ UNCHANGED <<shared, now, nloads, ak, last, pk>>

-----------------------------------------------------------------------------
(* ask                                                                     *)

\* line 202, t = _norm(raw), and the block of ask each prompt is answered by
t_of == [p \in Prompts |-> _norm(p)]

block_of == [p \in Prompts |-> route(_norm(p), p)]

\* a handler that reads one global and returns
Answered(p, resp) ==
    /\ ak' = [AkIdle EXCEPT !.pc = "done", !.prompt = p, !.resp = resp]
    /\ UNCHANGED <<shared, now, nloads, ld, last, pk>>

AnsweredFrom(p, df, resp) ==
    /\ ak' = [AkIdle EXCEPT !.pc = "done", !.prompt = p, !.df = df, !.resp = resp]
    /\ UNCHANGED <<shared, now, nloads, ld, last, pk>>

\* AskTopAcum without the .copy(): the first n rows are kept in TOP_CLIENTS itself
AskTopAcum_inplace ==
    \E p \in Prompts :
        /\ ak.pc = "idle"
        /\ block_of[p] = 205
        /\ ak' = [AkIdle EXCEPT !.pc = "done", !.prompt = p,
                                !.resp = top_acum(TOP_CLIENTS, t_of[p])]
        /\ TOP_CLIENTS' = head(TOP_CLIENTS, TopN(t_of[p]))
        /\ UNCHANGED <<DF, G_BY_PERIOD, G_BY_EMISORA, G_SERVICES, LAST_LOAD_TS,
                       now, nloads, ld, last, pk>>

\* lines 205-211
AskTopAcum ==
    \E p \in Prompts :
        /\ ak.pc = "idle"
        /\ block_of[p] = 205
        /\ Answered(p, top_acum(TOP_CLIENTS, t_of[p]))

\* lines 214-238
AskTopUltimo ==
    \E p \in Prompts :
        /\ ak.pc = "idle"
        /\ block_of[p] = 214
        /\ AnsweredFrom(p, DF, top_ultimo(DF, t_of[p]))

\* lines 241-245
AskPorMes ==
    \E p \in Prompts :
        /\ ak.pc = "idle"
        /\ block_of[p] = 241
        /\ Answered(p, por_mes(G_BY_PERIOD))

\* lines 248-269
AskEmisora ==
    \E p \in Prompts :
        /\ ak.pc = "idle"
        /\ block_of[p] = 248
        /\ IF has_variac(t_of[p]) THEN AnsweredFrom(p, DF, emisora_var(DF))
           ELSE Answered(p, emisora_tot(G_BY_EMISORA))

\* lines 272-296
AskServicio ==
    \E p \in Prompts :
        /\ ak.pc = "idle"
        /\ block_of[p] = 272
        /\ IF has_variac(t_of[p]) THEN AnsweredFrom(p, DF, servicio_var(DF))
           ELSE Answered(p, servicio_tot(G_SERVICES))

\* lines 299-303: the first load of DF in DF[DF[COL_CLIENTE]...]
AskClienteOuter ==
    \E p \in Prompts :
        /\ ak.pc = "idle"
        /\ block_of[p] = 299
        /\ ak' = [AkIdle EXCEPT !.pc = "L303", !.prompt = p, !.df = DF]
        /\ UNCHANGED <<shared, now, nloads, ld, last, pk>>

\* lines 303-324: the second load of DF, the mask, and the rest of the block
AskClienteInner ==
    /\ ak.pc = "L303"
    /\ ak' = [ak EXCEPT !.pc = "done", !.df2 = DF,
                        !.resp = cliente(ak.df, DF, t_of[ak.prompt], ak.prompt)]
    /\ UNCHANGED <<shared, now, nloads, ld, last, pk>>

\* lines 327-340
AskVariacion ==
    \E p \in Prompts :
        /\ ak.pc = "idle"
        /\ block_of[p] = 327
        /\ AnsweredFrom(p, DF, variacion(DF))

\* line 343: total = float(DF[COL_TOTAL].sum())
AskDefaultTotal ==
    \E p \in Prompts :
        /\ ak.pc = "idle"
        /\ block_of[p] = 343
        /\ ak' = [AkIdle EXCEPT !.pc = "L345", !.prompt = p, !.df = DF,
                                !.total = SumCol(DF, COL_TOTAL)]
        /\ UNCHANGED <<shared, now, nloads, ld, last, pk>>

\* line 345: "filas": int(len(DF))
AskDefaultFilas ==
    /\ ak.pc = "L345"
    /\ ak' = [ak EXCEPT !.pc = "L347", !.filas = Len(DF)]
    /\ UNCHANGED <<shared, now, nloads, ld, last, pk>>

\* line 347: "clientes_unicos": int(DF[COL_CLIENTE].nunique())
AskDefaultClientes ==
    /\ ak.pc = "L347"
    /\ ak' = [ak EXCEPT !.pc = "L348",
                        !.clientes = Cardinality({r[COL_CLIENTE] : r \in Range(DF)})]
    /\ UNCHANGED <<shared, now, nloads, ld, last, pk>>

\* lines 348-350: "loaded_at": LAST_LOAD_TS, and the return
AskDefaultReturn ==
    /\ ak.pc = "L348"
    /\ ak' = [ak EXCEPT !.pc = "done",
                        !.resp = Answer([filas |-> ak.filas,
                                         total |-> _fmt_currency(ak.total),
                                         clientes_unicos |-> ak.clientes,
                                         loaded_at |-> LAST_LOAD_TS])]
    /\ UNCHANGED <<shared, now, nloads, ld, last, pk>>

\* the response is sent; the client keeps it
AskDone ==
    /\ ak.pc = "done"
    /\ last' = IF nloads = 0 THEN [prompt |-> ak.prompt, resp |-> ak.resp] ELSE NoLast
    /\ ak' = AkIdle
    /\ UNCHANGED <<shared, now, nloads, ld, pk>>

AskNext ==
    \/ AskTopAcum
    \/ AskTopUltimo
    \/ AskPorMes
    \/ AskEmisora
    \/ AskServicio
    \/ AskClienteOuter
    \/ AskClienteInner
    \/ AskVariacion
    \/ AskDefaultTotal
    \/ AskDefaultFilas
    \/ AskDefaultClientes
    \/ AskDefaultReturn
    \/ AskDone

LoadNext ==
    \E r \in Reloaders :
        \/ LoadRead(r)
        \/ LoadSetDF(r)
        \/ LoadBuild(r)
        \/ LoadStore(r)
        \/ LoadStamp(r)
        \/ ReloadReturn(r)

\* asks and reloads served by the thread pool, any interleaving
Next == AskNext \/ LoadNext \/ Tick

Spec == Init /\ [][Next]_vars

\* asks alone on any loaded record set: no reload is requested
InitAsk == (\E d \in Datasets : Loaded(d)) /\ pk = NoCall

SpecAsk == InitAsk /\ [][AskNext]_vars

-----------------------------------------------------------------------------
(* _periodo_key called on its own                                          *)

LabelMonths ==
    {<<"J", "u", "l">>,
     <<"j", "u", "l">>,
     <<"j", "u", "l", "i", "o">>,
     <<"j", "u", "n", "k">>,
     <<"j", "u", "n">>,
     <<"S", "e", "p", "t">>,
     <<"s", "e", "p", "t">>,
     <<"s", "e", "p">>,
     <<"s", "e", "p", "i", "a">>,
     <<"s", "e", "t">>,
     <<"e", "n", "e">>,
     <<"e", "n", "e", "r", "o">>,
     <<"d", "i", "c">>,
     <<"x", "y", "z">>,
     <<"j", "u">>,
     <<"a", "g", "o", "s", "t", "o">>,
     <<"a", "g", "o", "s", "t">>,
     <<"m", "a", "y">>,
     <<"m", "a", "y", "o">>,
     <<"a", "b", "r">>,
     <<"m", "a", "r">>,
     <<"m", "a", "r", "z", "o">>,
     <<"f", "e", "b">>,
     <<"o", "c", "t">>,
     <<"n", "o", "v">>,
     <<"a", "g", "o">>,
     <<"j", "u", "l", "i", "o", "x">>}

LabelSeps == {<<"-">>, <<" ">>, <<".", " ">>, <<"/">>, <<>>, <<" ", "-", " ">>}

LabelYears == {<<"2", "0", "2", "5">>, <<"2", "0", "2", "4">>, <<"2", "5">>, <<"2", "0", "2", "5", "1">>}

Labels == {m \o x \o y : m \in LabelMonths, x \in LabelSeps, y \in LabelYears}

InitKey ==
    /\ Loaded(Pick({1}))
    /\ \E l \in Labels : pk = [label |-> l, done |-> FALSE, key |-> None]

KeyCall ==
    /\ ~pk.done
    /\ pk' = [pk EXCEPT !.done = TRUE, !.key = _periodo_key(pk.label)]
    /\ UNCHANGED <<shared, now, nloads, ld, ak, last>>

SpecKey == InitKey /\ [][KeyCall]_vars

-----------------------------------------------------------------------------
(* Properties                                                              *)

Tables == <<G_BY_PERIOD, G_BY_EMISORA, G_SERVICES, TOP_CLIENTS>>

PeriodLabels(rows) == {r[COL_PERIODO] : r \in Range(rows)}

\* the labels of a table that resolve to a PeriodKey, and their keys
Resolved(rows) == {l \in PeriodLabels(rows) : _periodo_key(l) # None}

KeysOf(labels) == {_periodo_key(l) : l \in labels} \ {None}

ClientRows(rows, name) == SelectSeq(rows, LAMBDA r : StrContains(r[COL_CLIENTE], name))

EmisoraRows(rows, em) == SelectSeq(rows, LAMBDA r : r[COL_EMISORA] = em)

\* the summary a single record set d gives
SummaryOf(d, a) ==
    /\ a.filas = Len(d)
    /\ a.total = _fmt_currency(SumCol(d, COL_TOTAL))
    /\ a.clientes_unicos = Cardinality({r[COL_CLIENTE] : r \in Range(d)})

\* the reads of one ask agree: the summary is the summary of one record set,
\* and the two loads of DF at line 303 give the same record set
AskReadsAgree ==
    /\ ak.pc = "done" /\ ak.resp.key = "answer"
          => \E d \in Workbooks : SummaryOf(d, ak.resp.answer)
    /\ ak.pc = "done" /\ block_of[ak.prompt] = 299 => ak.df2 = ak.df

\* C1: everything an ask reads comes from one snapshot, and no state exposes
\* the record set of one load with an aggregate table of another.
C1_OneSnapshot ==
    /\ Tables = _build_caches(DF)
    /\ AskReadsAgree

\* C2: once every reload has finished, the four tables are the ones derived
\* from the record set held in DF.
C2_TablesOfDF ==
    (\A r \in Reloaders : ld[r].pc = "idle") => Tables = _build_caches(DF)

\* the prompt "cliente X variacion"
ClienteVariacion(x) == W_cliente \o <<" ">> \o x \o <<" ">> \o W_variacion

Fragments == {<<"A", "c", "m", "e">>, <<"b", "e", "t">>}

\* C3: "cliente X variacion", X part of the identifier of a client with records
\* in two periods or more, is answered by the one-row variation table of the
\* clients whose identifier contains X, and the extracted name is X.
C3_ClienteVariacion ==
    \A x \in Fragments :
        /\ ak.pc = "done"
        /\ ak.prompt = ClienteVariacion(x)
        /\ \E r \in Range(ak.df) :
              /\ StrContains(r[COL_CLIENTE], x)
              /\ Cardinality(PeriodLabels(
                    SelectSeq(ak.df, LAMBDA q : q[COL_CLIENTE] = r[COL_CLIENTE]))) >= 2
        => /\ ak.resp.ret = 320
           /\ Len(ak.resp.rows) = 1
           /\ ak.resp.name = x

\* the pair (current, previous) of a comparison row is the pair of the two
\* latest periods of `rows` among the labels that resolve
LatestTwo(rows, row) ==
    LET cur == row.Periodo_Actual
        prev == row.Periodo_Anterior
    IN  /\ _periodo_key(cur) # None
        /\ _periodo_key(prev) # None
        /\ _periodo_key(cur) = Max(KeysOf(PeriodLabels(rows)))
        /\ _periodo_key(prev) = Max(KeysOf(PeriodLabels(rows) \ {cur}))

\* C4: in every month-over-month comparison the current and the previous
\* period are the two latest periods among the labels that resolve; a label
\* that does not resolve is never one of them.
C4_LatestResolved ==
    ak.pc = "done" =>
        /\ ak.resp.ret \in {340, 291} =>
              \A i \in DOMAIN ak.resp.rows : LatestTwo(ak.df, ak.resp.rows[i])
        /\ ak.resp.ret = 320 =>
              LatestTwo(ClientRows(ak.df, ak.resp.name), ak.resp.rows[1])
        /\ ak.resp.ret = 264 =>
              \A i \in DOMAIN ak.resp.rows :
                  LatestTwo(EmisoraRows(ak.df, ak.resp.rows[i].Emisora), ak.resp.rows[i])

\* C5: with fewer than two resolved periods in the data of the requested
\* variation, ask returns the explanatory message and raises nothing.
C5_TooFewPeriods ==
    ak.pc = "done" =>
        /\ ak.resp.ret \in {330, 340} /\ Cardinality(Resolved(ak.df)) < 2
              => ak.resp.ret = 330
        /\ ak.resp.ret \in {276, 291} /\ Cardinality(Resolved(ak.df)) < 2
              => ak.resp.ret = 276
        /\ ak.resp.ret \in {309, 320}
              /\ Cardinality(Resolved(ClientRows(ak.df, ak.resp.name))) < 2
              => ak.resp.ret = 309

\* C6: top-N-in-latest-period on a non-empty record set none of whose labels
\* resolves returns an explanatory result without rows and raises nothing.
C6_TopNoPeriod ==
    /\ ak.pc = "done"
    /\ block_of[ak.prompt] = 214
    /\ TopN(t_of[ak.prompt]) >= 1
    /\ ak.df # <<>>
    /\ Resolved(ak.df) = {}
    => ak.resp.key = "md" /\ ak.resp.rows = <<>>

\* the leading run of letters of a label, lower-cased
LeadToken(s) ==
    LET s2 == LowerS(Strip(s))
    IN  SubSeq(s2, 1, SkipWhile(s2, 1, AsciiLower) - 1)

Abbreviations == {MonthText[m] : m \in DOMAIN MonthText}

\* C7: _periodo_key gives year*100+month when the leading token of the label is
\* one of the abbreviations and a 4-digit year follows, and none whenever the
\* leading 3-5 letter token is not one of the abbreviations.
C7_KeyOfLabel ==
    pk.done =>
        LET s2 == LowerS(Strip(pk.label))
            tok == LeadToken(pk.label)
            y == YearAt(s2, Len(tok) + 1)
        IN  /\ tok \in Abbreviations /\ y # 0
                  => pk.key = IntOf(SubSeq(s2, y, y + 3)) * 100 + MonthsGet(tok)
            /\ Len(tok) \in 3..5 /\ tok \notin Abbreviations => pk.key = None

\* the eight patterns of the priority table, on the normalized and the raw text
Pattern(i, t, raw) ==
    CASE i = 1 -> In(W_top, t) /\ In(W_cliente, t) /\ ~In(W_ultimo, t)
      [] i = 2 -> In(W_top, t) /\ In(W_cliente, t) /\ (In(W_ultimo, t) \/ In(W_mes, t))
      [] i = 3 -> In(W_por_mes, t) \/ In(W_total_por_mes, t) \/ In(W_mensual, t)
      [] i = 4 -> In(W_emisora, t) \/ In(W_canal, t)
      [] i = 5 -> In(W_servicio, t) \/ In(W_tipo, t)
      [] i = 6 -> In(W_cliente, t) /\ ClienteName(raw) # <<>>
      [] i = 7 -> In(W_variac, t) \/ In(W_variacion, t) \/ In(W_mom, t)
      [] OTHER -> TRUE

\* the lowest-numbered intent whose pattern a prompt satisfies
intent_of ==
    [p \in Prompts |->
        CHOOSE i \in 1..8 : /\ Pattern(i, _norm(p), p)
                            /\ \A j \in 1..(i - 1) : ~Pattern(j, _norm(p), p)]

\* the intent whose handler holds the return statement (or raising line) ret
IntentOfRet(ret) ==
    CASE ret = 211 -> 1
      [] ret \in {219, 231, 238} -> 2
      [] ret = 245 -> 3
      [] ret \in {257, 264, 269} -> 4
      [] ret \in {276, 291, 296} -> 5
      [] ret \in {303, 305, 309, 320, 324} -> 6
      [] ret \in {330, 340} -> 7
      [] ret = 350 -> 8
      [] OTHER -> 0

\* C8: every query is answered by the handler of the lowest-numbered intent
\* whose pattern it satisfies: "top" with "cliente" by intent 1 or 2, "cliente"
\* without a `cliente <name>` match by a later intent, no match by the summary.
C8_FirstMatchWins ==
    ak.pc = "done" =>
        LET p == ak.prompt
            i == IntentOfRet(ak.resp.ret)
            v == has_variac(t_of[p])
        IN  /\ i = intent_of[p]
            /\ In(W_top, t_of[p]) /\ In(W_cliente, t_of[p]) => i \in {1, 2}
            /\ i = 4 => (v <=> ak.resp.ret \in {257, 264})
            /\ i = 5 => (v <=> ak.resp.ret \in {276, 291})
            /\ i = 6 /\ ak.resp.ret \in {309, 320, 324} => (v <=> ak.resp.ret # 324)
            /\ (i = 8) <=> (ak.resp.key = "answer")
            /\ i # 8 => ak.resp.key \in {"md", "exception"}

\* a prompt that satisfies patterns 3 and 4 is answered by intent 3
C8_Witness ==
    /\ ak.pc = "done"
    /\ Pattern(3, t_of[ak.prompt], ak.prompt)
    /\ Pattern(4, t_of[ak.prompt], ak.prompt)
    /\ ak.resp.ret = 245

\* C9: a step of ask leaves DF, the four tables and LAST_LOAD_TS as they are,
\* and an ask with the prompt of the previous ask returns the same response.
C9_AskChangesNothing ==
    [][ak' # ak =>
          /\ shared' = shared
          /\ ak'.pc = "done" /\ last # NoLast /\ last.prompt = ak'.prompt
                => ak'.resp = last.resp]_vars

\* the same prompt answered twice, with a table of two rows or more
C9_Witness ==
    /\ ak.pc = "done"
    /\ last.prompt = ak.prompt
    /\ ak.resp = last.resp
    /\ Len(ak.resp.rows) >= 2

\* C10: in a _mom_simple result the key of Periodo_Anterior is strictly below
\* the key of Periodo_Actual.  Stated on the record sets whose labels all
\* resolve (a label that does not resolve is the case of C4).
C10_PreviousBeforeCurrent ==
    /\ ak.pc = "done"
    /\ ak.resp.ret \in {340, 320, 264}
    /\ Resolved(ak.df) = PeriodLabels(ak.df)
    => \A i \in DOMAIN ak.resp.rows :
          _periodo_key(ak.resp.rows[i].Periodo_Anterior)
              < _periodo_key(ak.resp.rows[i].Periodo_Actual)

=============================================================================
